---- MODULE Spec2Model ----
(***************************************************************************)
(* Model of the portfolio backtest engine of quant-portfolio-simulator:    *)
(* PortfolioSimulator (src/src/services/simulation.ts), the price provider *)
(* it calls (src/src/services/yfinance.ts) and the runSimulation entry.    *)
(*                                                                         *)
(* Money and prices are integers.  A quotient the code computes in         *)
(* floating point is kept as an exact fraction [num, den] and compared by  *)
(* cross-multiplication with the sign and zero cases of IEEE division      *)
(* (x/0 is +Infinity, -Infinity or NaN; every comparison with NaN is       *)
(* false).  Rounding error of binary floating point is outside the model.  *)
(* Dates are integers: "yyyy-MM-dd" strings sort like the days they name.  *)
(* The clock Date.now() is the variable now; it is read by executeTrade    *)
(* only, after the delay of the fetches, and is taken not to advance       *)
(* during the synchronous loop over the days.                              *)
(* hook is the state of useSimulation (src/src/hooks/useSimulation.ts),    *)
(* the caller of runSimulation; provider is the data the price source has  *)
(* handed out, so that a second run reads the same data; rerun is <<>> in  *)
(* the first run and holds the configuration of the first run in the       *)
(* second.  inflight tells that the invocation of handleRunSimulation     *)
(* whose engine the variables above describe has not settled yet; stale    *)
(* holds the earlier invocations that are still waiting for their fetches  *)
(* while a later one occupies those variables.                             *)
(***************************************************************************)
EXTENDS Integers, Sequences, FiniteSets, TLC

VARIABLES config, pc, pending, historicalData, tradingDates, dayIndex,
          prices, signals, portfolio, trades, liquidations, result, error,
          hook, provider, now, rerun, inflight, stale

vars == <<config, pc, pending, historicalData, tradingDates, dayIndex,
          prices, signals, portfolio, trades, liquidations, result, error,
          hook, provider, now, rerun, inflight, stale>>

(***************************************************************************)
(* Bounds of the explored inputs.                                          *)
(***************************************************************************)
\* closes are drawn from MinPrice..MaxPrice
MinPrice == 3
MaxPrice == 5
\* the provider has bars for the dates 0..LastDate
LastDate == 21
\* number of final dates of a series whose close is chosen freely
TailLen == 2
\* initial capital of a valid configuration
Capital == 100
\* initial capital of the runs that can buy at the closes of the rising series
RisingCapital == 1000

Prices == MinPrice..MaxPrice

(***************************************************************************)
(* Program constants.                                                      *)
(***************************************************************************)
\* equal-weight rebalances when dayIndex % 20 === 0
RebalanceDays == 20
\* momentum and mean-reversion start at dayIndex >= 20 and look back 20 closes
LookbackDays == 20
\* the cap of the notional of a BUY signal without weight
MaxUnweightedNotional == 10000

KnownTickers == {"AAPL", "MSFT"}
Strategies == {"equal-weight", "momentum", "mean-reversion"}

MaxDrawdownReason == "Max drawdown exceeded"
StopLossReason == "Stop loss triggered"

(***************************************************************************)
(* Arithmetic helpers.                                                     *)
(***************************************************************************)
Frac(n, d) == [num |-> n, den |-> d]

\* a.num / a.den > b.num / b.den as IEEE evaluates it; b.den > 0
JsGreater(a, b) ==
  IF a.den > 0 THEN a.num * b.den > b.num * a.den
  ELSE IF a.den < 0 THEN a.num * b.den < b.num * a.den
  ELSE a.num > 0

\* a.num / a.den < b.num / b.den as IEEE evaluates it; b.den > 0
JsLess(a, b) ==
  IF a.den > 0 THEN a.num * b.den < b.num * a.den
  ELSE IF a.den < 0 THEN a.num * b.den > b.num * a.den
  ELSE a.num < 0

SeqMax(s) ==
  CHOOSE m \in {s[i] : i \in 1..Len(s)} : \A i \in 1..Len(s) : m >= s[i]

RECURSIVE SeqSum(_)
SeqSum(s) == IF s = <<>> THEN 0 ELSE s[1] + SeqSum(Tail(s))

SetMin(S) == CHOOSE x \in S : \A y \in S : x <= y

SortSet(S) ==
  [i \in 1..Cardinality(S) |->
     CHOOSE x \in S : Cardinality({y \in S : y < x}) = i - 1]

Last(s) == s[Len(s)]

(***************************************************************************)
(* The price provider.                                                     *)
(***************************************************************************)
Bar(d, c) == [date |-> d, close |-> c]

\* the bars of one ticker: close head on date 0, body up to the tail, then
\* the closes of tail; no bar on the dates of missing
SeriesOf(head, body, tail, missing) ==
  LET firstTail == LastDate - Len(tail) + 1
      closeOn(d) == IF d = 0 THEN head
                    ELSE IF d >= firstTail THEN tail[d - firstTail + 1]
                    ELSE body
      bars == [i \in 1..(LastDate + 1) |-> Bar(i - 1, closeOn(i - 1))]
  IN SelectSeq(bars, LAMBDA b : b.date \notin missing)

\* closes that rise strictly from date to date, one bar per date
RisingSeries == [i \in 1..(LastDate + 1) |-> Bar(i - 1, MinPrice + i - 1)]

\* what the provider may hold for a ticker
ProviderSeries(ticker) ==
  IF ticker = "AAPL"
  THEN {SeriesOf(h, b, t, {}) : h \in Prices, b \in Prices,
                                t \in [1..TailLen -> Prices]}
       \cup {RisingSeries}
  ELSE {SeriesOf(c, c, <<c>>, m) : c \in Prices, m \in {{}, {0}, {1}, {0, 1}}}

\* generateHistoricalData: one bar per date from startDate to endDate
GenerateHistoricalData(series, startDate, endDate) ==
  SelectSeq(series, LAMBDA b : startDate <= b.date /\ b.date <= endDate)

(***************************************************************************)
(* PortfolioSimulator: pure parts.                                         *)
(***************************************************************************)
NewPortfolio(cfg) ==
  [assets |-> <<>>,
   cash |-> cfg.initialCapital,
   totalValue |-> cfg.initialCapital,
   dailyReturns |-> <<>>,
   dates |-> <<>>,
   values |-> <<cfg.initialCapital>>]

GetTradingDates(hd) ==
  SortSet(UNION {{hd[t][i].date : i \in 1..Len(hd[t])} : t \in DOMAIN hd})

\* the prices record simulateDay builds: a ticker without a bar on the date
\* has no entry
DayPrices(hd, tickers, date) ==
  LET withBar == {tickers[k] : k \in {j \in 1..Len(tickers) :
                     /\ tickers[j] \in DOMAIN hd
                     /\ \E i \in 1..Len(hd[tickers[j]]) :
                           hd[tickers[j]][i].date = date}}
  IN [t \in withBar |->
        hd[t][CHOOSE i \in 1..Len(hd[t]) : hd[t][i].date = date].close]

\* prices[ticker], <<>> when undefined
PriceOf(pr, ticker) == IF ticker \in DOMAIN pr THEN <<pr[ticker]>> ELSE <<>>

GetRecentPrices(hd, ticker, currentDate, days) ==
  LET data == IF ticker \in DOMAIN hd THEN hd[ticker] ELSE <<>>
      found == {i \in 1..Len(data) : data[i].date = currentDate}
      \* findIndex, 0-based, -1 when absent
      currentIndex == IF found = {} THEN -1 ELSE SetMin(found) - 1
      from == IF currentIndex - days + 1 > 0 THEN currentIndex - days + 1 ELSE 0
  IN IF currentIndex < days - 1 THEN <<>>
     ELSE [k \in 1..(currentIndex + 1 - from) |-> data[from + k].close]

Quantity(assets, ticker) == IF ticker \in DOMAIN assets THEN assets[ticker] ELSE 0

Signal(t, a, w, r) == [ticker |-> t, action |-> a, weight |-> w, reason |-> r]

\* equal-weight rebalancing that buys the over-weight and sells the under-weight
EqualWeightSignal_SwappedSides(cfg, pf, dayIndexArg, pr, ticker) ==
  LET n == Len(cfg.tickers)
      targetWeight == Frac(1, n)
  IN IF dayIndexArg = 0
     THEN <<Signal(ticker, "BUY", <<targetWeight>>,
                   "Initial equal weight allocation")>>
     ELSE IF dayIndexArg % RebalanceDays = 0
     THEN IF ticker \notin DOMAIN pr
          THEN <<>>   \* quantity * undefined is NaN, the comparison is false
          ELSE LET currentValue == Quantity(pf.assets, ticker) * pr[ticker]
                   currentWeight == Frac(currentValue, pf.totalValue)
                   \* Math.abs(currentWeight - targetWeight) > 0.05
                   off == \/ JsGreater(currentWeight, Frac(20 + n, 20 * n))
                          \/ JsLess(currentWeight, Frac(20 - n, 20 * n))
               IN IF off
                  THEN <<Signal(ticker,
                                IF JsGreater(currentWeight, targetWeight)
                                THEN "BUY" ELSE "SELL",
                                <<targetWeight>>,
                                "Rebalancing to equal weights")>>
                  ELSE <<>>
     ELSE <<>>

\* equal-weight with the whole portfolio as the target of each ticker on day 0
EqualWeightSignal_FullWeight(cfg, pf, dayIndexArg, pr, ticker) ==
  LET n == Len(cfg.tickers)
      targetWeight == Frac(1, n)
  IN IF dayIndexArg = 0
     THEN <<Signal(ticker, "BUY", <<Frac(1, 1)>>,
                   "Initial equal weight allocation")>>
     ELSE IF dayIndexArg % RebalanceDays = 0
     THEN IF ticker \notin DOMAIN pr
          THEN <<>>   \* quantity * undefined is NaN, the comparison is false
          ELSE LET currentValue == Quantity(pf.assets, ticker) * pr[ticker]
                   currentWeight == Frac(currentValue, pf.totalValue)
                   \* Math.abs(currentWeight - targetWeight) > 0.05
                   off == \/ JsGreater(currentWeight, Frac(20 + n, 20 * n))
                          \/ JsLess(currentWeight, Frac(20 - n, 20 * n))
               IN IF off
                  THEN <<Signal(ticker,
                                IF JsGreater(currentWeight, targetWeight)
                                THEN "SELL" ELSE "BUY",
                                <<targetWeight>>,
                                "Rebalancing to equal weights")>>
                  ELSE <<>>
     ELSE <<>>

\* one ticker's signal of the day under equal-weight: <<>> or <<signal>>
EqualWeightSignal(cfg, pf, dayIndexArg, pr, ticker) ==
  LET n == Len(cfg.tickers)
      targetWeight == Frac(1, n)
  IN IF dayIndexArg = 0
     THEN <<Signal(ticker, "BUY", <<targetWeight>>,
                   "Initial equal weight allocation")>>
     ELSE IF dayIndexArg % RebalanceDays = 0
     THEN IF ticker \notin DOMAIN pr
          THEN <<>>   \* quantity * undefined is NaN, the comparison is false
          ELSE LET currentValue == Quantity(pf.assets, ticker) * pr[ticker]
                   currentWeight == Frac(currentValue, pf.totalValue)
                   \* Math.abs(currentWeight - targetWeight) > 0.05
                   off == \/ JsGreater(currentWeight, Frac(20 + n, 20 * n))
                          \/ JsLess(currentWeight, Frac(20 - n, 20 * n))
               IN IF off
                  THEN <<Signal(ticker,
                                IF JsGreater(currentWeight, targetWeight)
                                THEN "SELL" ELSE "BUY",
                                <<targetWeight>>,
                                "Rebalancing to equal weights")>>
                  ELSE <<>>
     ELSE <<>>

\* momentum selling whether or not the ticker is held
MomentumSignal_SellsFlat(hd, pf, date, dayIndexArg, ticker) ==
  IF dayIndexArg >= LookbackDays
  THEN LET recent == GetRecentPrices(hd, ticker, date, LookbackDays)
       IN IF Len(recent) >= LookbackDays
          THEN LET momentum == Frac(recent[Len(recent)] - recent[1], recent[1])
               IN IF JsGreater(momentum, Frac(5, 100))
                     /\ ticker \notin DOMAIN pf.assets
                  THEN <<Signal(ticker, "BUY", <<Frac(1, 5)>>, "Strong momentum")>>
                  ELSE IF JsLess(momentum, Frac(-5, 100))
                  THEN <<Signal(ticker, "SELL", <<>>, "Negative momentum")>>
                  ELSE <<>>
          ELSE <<>>
  ELSE <<>>

\* momentum buying whether or not the ticker is held
MomentumSignal_IgnoresPosition(hd, pf, date, dayIndexArg, ticker) ==
  IF dayIndexArg >= LookbackDays
  THEN LET recent == GetRecentPrices(hd, ticker, date, LookbackDays)
       IN IF Len(recent) >= LookbackDays
          THEN LET momentum == Frac(recent[Len(recent)] - recent[1], recent[1])
               IN IF JsGreater(momentum, Frac(5, 100))
                  THEN <<Signal(ticker, "BUY", <<Frac(1, 5)>>, "Strong momentum")>>
                  ELSE IF JsLess(momentum, Frac(-5, 100))
                          /\ ticker \in DOMAIN pf.assets
                  THEN <<Signal(ticker, "SELL", <<>>, "Negative momentum")>>
                  ELSE <<>>
          ELSE <<>>
  ELSE <<>>

\* one ticker's signal of the day under momentum
MomentumSignal(hd, pf, date, dayIndexArg, ticker) ==
  IF dayIndexArg >= LookbackDays
  THEN LET recent == GetRecentPrices(hd, ticker, date, LookbackDays)
       IN IF Len(recent) >= LookbackDays
          THEN LET momentum == Frac(recent[Len(recent)] - recent[1], recent[1])
               IN IF JsGreater(momentum, Frac(5, 100))
                     /\ ticker \notin DOMAIN pf.assets
                  THEN <<Signal(ticker, "BUY", <<Frac(1, 5)>>, "Strong momentum")>>
                  ELSE IF JsLess(momentum, Frac(-5, 100))
                          /\ ticker \in DOMAIN pf.assets
                  THEN <<Signal(ticker, "SELL", <<>>, "Negative momentum")>>
                  ELSE <<>>
          ELSE <<>>
  ELSE <<>>

\* mean-reversion buying whether or not the ticker is held
MeanReversionSignal_BuysHeld(hd, pf, date, dayIndexArg, pr, ticker) ==
  IF dayIndexArg >= LookbackDays
  THEN LET recent == GetRecentPrices(hd, ticker, date, LookbackDays)
       IN IF Len(recent) >= LookbackDays
          THEN LET currentPrice == pr[ticker]
                   \* (currentPrice - average) / average, average = sum / length
                   deviation == Frac(currentPrice * Len(recent) - SeqSum(recent),
                                     SeqSum(recent))
               IN IF JsLess(deviation, Frac(-1, 10))
                  THEN <<Signal(ticker, "BUY", <<Frac(1, 5)>>, "Oversold")>>
                  ELSE IF JsGreater(deviation, Frac(1, 10))
                          /\ ticker \in DOMAIN pf.assets
                  THEN <<Signal(ticker, "SELL", <<>>, "Overbought")>>
                  ELSE <<>>
          ELSE <<>>
  ELSE <<>>

\* one ticker's signal of the day under mean-reversion
MeanReversionSignal(hd, pf, date, dayIndexArg, pr, ticker) ==
  IF dayIndexArg >= LookbackDays
  THEN LET recent == GetRecentPrices(hd, ticker, date, LookbackDays)
       IN IF Len(recent) >= LookbackDays
          THEN LET currentPrice == pr[ticker]
                   \* (currentPrice - average) / average, average = sum / length
                   deviation == Frac(currentPrice * Len(recent) - SeqSum(recent),
                                     SeqSum(recent))
               IN IF JsLess(deviation, Frac(-1, 10))
                     /\ ticker \notin DOMAIN pf.assets
                  THEN <<Signal(ticker, "BUY", <<Frac(1, 5)>>, "Oversold")>>
                  ELSE IF JsGreater(deviation, Frac(1, 10))
                          /\ ticker \in DOMAIN pf.assets
                  THEN <<Signal(ticker, "SELL", <<>>, "Overbought")>>
                  ELSE <<>>
          ELSE <<>>
  ELSE <<>>

TickerSignal(cfg, hd, pf, date, dayIndexArg, pr, ticker) ==
  IF cfg.strategy = "equal-weight"
  THEN EqualWeightSignal(cfg, pf, dayIndexArg, pr, ticker)
  ELSE IF cfg.strategy = "momentum"
  THEN MomentumSignal(hd, pf, date, dayIndexArg, ticker)
  ELSE IF cfg.strategy = "mean-reversion"
  THEN MeanReversionSignal(hd, pf, date, dayIndexArg, pr, ticker)
  ELSE <<>>

RECURSIVE SignalsFrom(_, _, _, _, _, _, _)
SignalsFrom(cfg, hd, pf, date, dayIndexArg, pr, k) ==
  IF k > Len(cfg.tickers) THEN <<>>
  ELSE TickerSignal(cfg, hd, pf, date, dayIndexArg, pr, cfg.tickers[k])
       \o SignalsFrom(cfg, hd, pf, date, dayIndexArg, pr, k + 1)

\* the signals of one day, in the order of config.tickers
GenerateSignals(cfg, hd, pf, date, dayIndexArg, pr) ==
  SignalsFrom(cfg, hd, pf, date, dayIndexArg, pr, 1)

\* a Trade; its id is `${date}-${ticker}-${Date.now()}`
Trade(date, ticker, action, quantity, price, value, reason) ==
  [id |-> <<date, ticker, now>>,
   date |-> date, ticker |-> ticker, action |-> action, quantity |-> quantity,
   price |-> price, value |-> value, reason |-> reason]

\* assets without the key ticker
Without(assets, ticker) ==
  IF DOMAIN assets \ {ticker} = {} THEN <<>>
  ELSE [t \in DOMAIN assets \ {ticker} |-> assets[t]]

\* assets with assets[ticker] = q
WithQuantity(assets, ticker, q) ==
  [t \in DOMAIN assets \cup {ticker} |-> IF t = ticker THEN q ELSE assets[t]]

\* the BUY branch without the check of the quantity
ExecuteBuy_NoQuantityCheck(pf, tr, signal, date, price) ==
  IF price = <<>> THEN [portfolio |-> pf, trades |-> tr]
  ELSE
    LET p == price[1]
        weighted == signal.weight # <<>> /\ signal.weight[1].num # 0
        targetValue ==
          IF weighted
          THEN Frac(pf.totalValue * signal.weight[1].num, signal.weight[1].den)
          ELSE IF pf.cash <= 5 * MaxUnweightedNotional
               THEN Frac(pf.cash, 5)
               ELSE Frac(MaxUnweightedNotional, 1)
        quantity == targetValue.num \div (targetValue.den * p)
        value == quantity * p
    IN IF value <= pf.cash
       THEN [portfolio |->
               [pf EXCEPT !.assets = WithQuantity(pf.assets, signal.ticker,
                                       Quantity(pf.assets, signal.ticker) + quantity),
                          !.cash = pf.cash - value],
             trades |-> Append(tr, Trade(date, signal.ticker, "BUY", quantity,
                                         p, value, signal.reason))]
       ELSE [portfolio |-> pf, trades |-> tr]

\* the BUY branch without the check of the cash
ExecuteBuy_NoCashCheck(pf, tr, signal, date, price) ==
  IF price = <<>> THEN [portfolio |-> pf, trades |-> tr]
  ELSE
    LET p == price[1]
        weighted == signal.weight # <<>> /\ signal.weight[1].num # 0
        targetValue ==
          IF weighted
          THEN Frac(pf.totalValue * signal.weight[1].num, signal.weight[1].den)
          ELSE IF pf.cash <= 5 * MaxUnweightedNotional
               THEN Frac(pf.cash, 5)
               ELSE Frac(MaxUnweightedNotional, 1)
        quantity == targetValue.num \div (targetValue.den * p)
        value == quantity * p
    IN IF quantity > 0
       THEN [portfolio |->
               [pf EXCEPT !.assets = WithQuantity(pf.assets, signal.ticker,
                                       Quantity(pf.assets, signal.ticker) + quantity),
                          !.cash = pf.cash - value],
             trades |-> Append(tr, Trade(date, signal.ticker, "BUY", quantity,
                                         p, value, signal.reason))]
       ELSE [portfolio |-> pf, trades |-> tr]

\* the BUY branch of executeTrade; price is <<>> when prices[ticker] is
\* undefined (the quantity is then NaN and nothing is executed)
ExecuteBuy(pf, tr, signal, date, price) ==
  IF price = <<>> THEN [portfolio |-> pf, trades |-> tr]
  ELSE
    LET p == price[1]
        weighted == signal.weight # <<>> /\ signal.weight[1].num # 0
        targetValue ==
          IF weighted
          THEN Frac(pf.totalValue * signal.weight[1].num, signal.weight[1].den)
          ELSE IF pf.cash <= 5 * MaxUnweightedNotional
               THEN Frac(pf.cash, 5)
               ELSE Frac(MaxUnweightedNotional, 1)
        quantity == targetValue.num \div (targetValue.den * p)
        value == quantity * p
    IN IF quantity > 0 /\ value <= pf.cash
       THEN [portfolio |->
               [pf EXCEPT !.assets = WithQuantity(pf.assets, signal.ticker,
                                       Quantity(pf.assets, signal.ticker) + quantity),
                          !.cash = pf.cash - value],
             trades |-> Append(tr, Trade(date, signal.ticker, "BUY", quantity,
                                         p, value, signal.reason))]
       ELSE [portfolio |-> pf, trades |-> tr]

\* the SELL branch with the proceeds taken from the cash
ExecuteSell_DebitsCash(pf, tr, signal, date, price) ==
  LET quantity == Quantity(pf.assets, signal.ticker)
      value == quantity * price[1]
  IN IF quantity > 0
     THEN [portfolio |->
             [pf EXCEPT !.assets = Without(pf.assets, signal.ticker),
                        !.cash = pf.cash - value],
           trades |-> Append(tr, Trade(date, signal.ticker, "SELL", quantity,
                                       price[1], value, signal.reason))]
     ELSE [portfolio |-> pf, trades |-> tr]

\* the SELL branch without the removal of the position
ExecuteSell_KeepsPosition(pf, tr, signal, date, price) ==
  LET quantity == Quantity(pf.assets, signal.ticker)
      value == quantity * price[1]
  IN IF quantity > 0
     THEN [portfolio |-> [pf EXCEPT !.cash = pf.cash + value],
           trades |-> Append(tr, Trade(date, signal.ticker, "SELL", quantity,
                                       price[1], value, signal.reason))]
     ELSE [portfolio |-> pf, trades |-> tr]

\* the SELL branch of executeTrade; generateSignals emits a SELL only for a
\* ticker that has a bar on the date, so price is defined here
ExecuteSell(pf, tr, signal, date, price) ==
  LET quantity == Quantity(pf.assets, signal.ticker)
      value == quantity * price[1]
  IN IF quantity > 0
     THEN [portfolio |->
             [pf EXCEPT !.assets = Without(pf.assets, signal.ticker),
                        !.cash = pf.cash + value],
           trades |-> Append(tr, Trade(date, signal.ticker, "SELL", quantity,
                                       price[1], value, signal.reason))]
     ELSE [portfolio |-> pf, trades |-> tr]

ExecuteTrade(pf, tr, signal, date, price) ==
  IF signal.action = "BUY" THEN ExecuteBuy(pf, tr, signal, date, price)
  ELSE IF signal.action = "SELL" THEN ExecuteSell(pf, tr, signal, date, price)
  ELSE [portfolio |-> pf, trades |-> tr]

RECURSIVE AssetsValue(_, _, _)
\* the sum over the held tickers of held of quantity * (prices[ticker] || 0)
AssetsValue(assets, pr, held) ==
  IF held = {} THEN 0
  ELSE LET t == CHOOSE x \in held : TRUE
       IN assets[t] * (IF t \in DOMAIN pr THEN pr[t] ELSE 0)
          + AssetsValue(assets, pr, held \ {t})

\* the valuation put in front of the history (unshift for push)
UpdatePortfolioValue_Unshift(pf, date, pr) ==
  LET totalValue == pf.cash + AssetsValue(pf.assets, pr, DOMAIN pf.assets)
      previousValue == pf.totalValue
  IN [pf EXCEPT !.totalValue = totalValue,
                !.values = <<totalValue>> \o pf.values,
                !.dates = Append(pf.dates, date),
                !.dailyReturns = Append(pf.dailyReturns,
                                   Frac(totalValue - previousValue, previousValue))]

\* the valuation without the cash
UpdatePortfolioValue_NoCash(pf, date, pr) ==
  LET totalValue == AssetsValue(pf.assets, pr, DOMAIN pf.assets)
      previousValue == pf.totalValue
  IN [pf EXCEPT !.totalValue = totalValue,
                !.values = Append(pf.values, totalValue),
                !.dates = Append(pf.dates, date),
                !.dailyReturns = Append(pf.dailyReturns,
                                   Frac(totalValue - previousValue, previousValue))]

UpdatePortfolioValue(pf, date, pr) ==
  LET totalValue == pf.cash + AssetsValue(pf.assets, pr, DOMAIN pf.assets)
      previousValue == pf.totalValue
  IN [pf EXCEPT !.totalValue = totalValue,
                !.values = Append(pf.values, totalValue),
                !.dates = Append(pf.dates, date),
                !.dailyReturns = Append(pf.dailyReturns,
                                   Frac(totalValue - previousValue, previousValue))]

CalculateCurrentDrawdown(pf) ==
  IF Len(pf.values) < 2 THEN Frac(0, 1)
  ELSE LET peak == SeqMax(pf.values)
           current == Last(pf.values)
       IN Frac(peak - current, peak)

\* liquidateAll crediting the cash with the total value
LiquidateAll_CreditsCash(pf, lq, date, reason) ==
  [portfolio |-> [pf EXCEPT !.assets = <<>>, !.cash = pf.totalValue],
   liquidations |-> Append(lq, [date |-> date, reason |-> reason])]

\* liquidateAll; its console.log line is kept in the log lq
LiquidateAll(pf, lq, date, reason) ==
  [portfolio |-> [pf EXCEPT !.assets = <<>>, !.totalValue = pf.cash],
   liquidations |-> Append(lq, [date |-> date, reason |-> reason])]

\* the drawdown control with >= instead of >
ApplyRiskControls_AtLimit(cfg, pf, lq, date) ==
  LET currentDrawdown == CalculateCurrentDrawdown(pf)
      s1 == IF ~JsLess(currentDrawdown, Frac(cfg.riskControls.maxDrawdown, 100))
            THEN LiquidateAll(pf, lq, date, MaxDrawdownReason)
            ELSE [portfolio |-> pf, liquidations |-> lq]
      initialValue == s1.portfolio.values[1]
      currentLoss == Frac(initialValue - s1.portfolio.totalValue, initialValue)
  IN IF JsGreater(currentLoss, Frac(cfg.riskControls.stopLoss, 100))
     THEN LiquidateAll(s1.portfolio, s1.liquidations, date, StopLossReason)
     ELSE s1

\* the stop loss compared with the percentage instead of the fraction
ApplyRiskControls_StopLossPercent(cfg, pf, lq, date) ==
  LET currentDrawdown == CalculateCurrentDrawdown(pf)
      s1 == IF JsGreater(currentDrawdown, Frac(cfg.riskControls.maxDrawdown, 100))
            THEN LiquidateAll(pf, lq, date, MaxDrawdownReason)
            ELSE [portfolio |-> pf, liquidations |-> lq]
      initialValue == s1.portfolio.values[1]
      currentLoss == Frac(initialValue - s1.portfolio.totalValue, initialValue)
  IN IF JsGreater(currentLoss, Frac(cfg.riskControls.stopLoss, 1))
     THEN LiquidateAll(s1.portfolio, s1.liquidations, date, StopLossReason)
     ELSE s1

\* the risk controls with the volatility cap enforced as a second limit of
\* the drawdown
ApplyRiskControls_VolatilityCap(cfg, pf, lq, date) ==
  LET currentDrawdown == CalculateCurrentDrawdown(pf)
      s0 == IF JsGreater(currentDrawdown, Frac(cfg.riskControls.volatilityCap, 100))
            THEN LiquidateAll(pf, lq, date, "Volatility cap exceeded")
            ELSE [portfolio |-> pf, liquidations |-> lq]
      s1 == IF JsGreater(currentDrawdown, Frac(cfg.riskControls.maxDrawdown, 100))
            THEN LiquidateAll(s0.portfolio, s0.liquidations, date, MaxDrawdownReason)
            ELSE s0
      initialValue == s1.portfolio.values[1]
      currentLoss == Frac(initialValue - s1.portfolio.totalValue, initialValue)
  IN IF JsGreater(currentLoss, Frac(cfg.riskControls.stopLoss, 100))
     THEN LiquidateAll(s1.portfolio, s1.liquidations, date, StopLossReason)
     ELSE s1

ApplyRiskControls(cfg, pf, lq, date) ==
  LET currentDrawdown == CalculateCurrentDrawdown(pf)
      s1 == IF JsGreater(currentDrawdown, Frac(cfg.riskControls.maxDrawdown, 100))
            THEN LiquidateAll(pf, lq, date, MaxDrawdownReason)
            ELSE [portfolio |-> pf, liquidations |-> lq]
      initialValue == s1.portfolio.values[1]
      currentLoss == Frac(initialValue - s1.portfolio.totalValue, initialValue)
  IN IF JsGreater(currentLoss, Frac(cfg.riskControls.stopLoss, 100))
     THEN LiquidateAll(s1.portfolio, s1.liquidations, date, StopLossReason)
     ELSE s1

IsNaN(f) == f.den = 0 /\ f.num = 0

\* the fraction with a denominator >= 0
Norm(f) == IF f.den < 0 THEN Frac(-f.num, -f.den) ELSE f

\* a > b for two quotients, neither NaN, as IEEE evaluates it
JsFracGreater(a, b) ==
  LET x == Norm(a)
      y == Norm(b)
  IN IF x.den = 0 \/ y.den = 0
     THEN \/ x.den = 0 /\ x.num > 0 /\ ~(y.den = 0 /\ y.num > 0)
          \/ y.den = 0 /\ y.num < 0 /\ ~(x.den = 0 /\ x.num < 0)
     ELSE x.num * y.den > y.num * x.den

\* Math.max(a, b)
MathMax(a, b) ==
  IF IsNaN(a) \/ IsNaN(b) THEN Frac(0, 0)
  ELSE IF JsFracGreater(b, a) THEN b ELSE a

RECURSIVE MaxDrawdownLoop(_, _, _, _)
\* the loop of calculateMaxDrawdown from values[i] on (i from 1)
MaxDrawdownLoop(values, i, peak, maxDrawdown) ==
  IF i > Len(values) THEN maxDrawdown
  ELSE LET newPeak == IF values[i] > peak THEN values[i] ELSE peak
           drawdown == Frac(newPeak - values[i], newPeak)
       \* peak and maxDrawdown are values when the next iteration starts
       IN CHOOSE r \in {MaxDrawdownLoop(values, i + 1, p, m) :
                          p \in {newPeak},
                          m \in {MathMax(maxDrawdown, drawdown)}} : TRUE

\* the running peak is never raised
CalculateMaxDrawdown_SeedPeak(pf) ==
  LET loop[i \in 1..(Len(pf.values) + 1)] ==
        IF i > Len(pf.values) THEN Frac(0, 1)
        ELSE MathMax(loop[i + 1], Frac(pf.values[1] - pf.values[i], pf.values[1]))
  IN loop[1]

CalculateMaxDrawdown(pf) ==
  MaxDrawdownLoop(pf.values, 1, pf.values[1], Frac(0, 1))

CalculateWinRate(tr) ==
  IF Len(tr) = 0 THEN Frac(0, 1)
  ELSE LET sellTrades == {i \in 1..Len(tr) : tr[i].action = "SELL"}
           \* find: the first BUY of the ticker dated before the SELL
           buysBefore(i) == {j \in 1..Len(tr) : /\ tr[j].ticker = tr[i].ticker
                                                /\ tr[j].action = "BUY"
                                                /\ tr[j].date < tr[i].date}
           winningTrades == {i \in sellTrades :
                                /\ buysBefore(i) # {}
                                /\ tr[i].price > tr[SetMin(buysBefore(i))].price}
       IN IF Cardinality(sellTrades) > 0
          THEN Frac(Cardinality(winningTrades), Cardinality(sellTrades))
          ELSE Frac(0, 1)

\* calculateMetrics; volatility and sharpeRatio (square roots of sums over
\* dailyReturns) are functions of portfolio.dailyReturns and are not computed
CalculateMetrics(pf, tr) ==
  [totalReturn |-> Frac(pf.totalValue - pf.values[1], pf.values[1]),
   maxDrawdown |-> CalculateMaxDrawdown(pf),
   winRate |-> CalculateWinRate(tr),
   alpha |-> Frac(2, 100),
   beta |-> Frac(11, 10)]

(***************************************************************************)
(* Configurations.                                                         *)
(***************************************************************************)
RiskControlsOf(dd, sl) == [maxDrawdown |-> dd, volatilityCap |-> 25, stopLoss |-> sl]

RiskControlSets == {RiskControlsOf(20, 15), RiskControlsOf(5, 50),
                    RiskControlsOf(50, 50)}

TickerLists == {<<"AAPL">>, <<"AAPL", "MSFT">>, <<"AAPL", "ZZZZ">>}

Config(tk, sd, ed, cap, st, rc) ==
  [tickers |-> tk, startDate |-> sd, endDate |-> ed, initialCapital |-> cap,
   strategy |-> st, riskControls |-> rc]

\* what section 6 of the specification asks of a configuration
ValidConfig(cfg) ==
  /\ Len(cfg.tickers) > 0
  /\ cfg.startDate < cfg.endDate
  /\ cfg.initialCapital > 0

ValidConfigs ==
  {Config(tk, 0, LastDate, Capital, st, rc) :
     tk \in TickerLists, st \in Strategies, rc \in RiskControlSets}
  \cup {Config(<<"AAPL">>, 0, LastDate, RisingCapital, "momentum", rc) :
          rc \in RiskControlSets}

InvalidConfigs ==
  {Config(tk, 0, ed, cap, "equal-weight", RiskControlsOf(20, 15)) :
     tk \in {<<>>, <<"AAPL">>}, ed \in {-1, 0, LastDate},
     cap \in {-Capital, 0, Capital}}
  \ {Config(<<"AAPL">>, 0, LastDate, Capital, "equal-weight",
            RiskControlsOf(20, 15))}

(***************************************************************************)
(* State after `new PortfolioSimulator(config)` in runSimulation.          *)
(***************************************************************************)
Constructed ==
  /\ pc = "constructed"
  /\ pending = {}
  /\ historicalData = <<>>
  /\ tradingDates = <<>>
  /\ dayIndex = 0
  /\ prices = <<>>
  /\ signals = <<>>
  /\ portfolio = NewPortfolio(config)
  /\ trades = <<>>
  /\ liquidations = <<>>
  /\ result = <<>>
  /\ error = <<>>

\* useSimulation after setIsRunning(true) and setError(null) of its first
\* handleRunSimulation; nothing has been fetched and no run came before
FirstRun ==
  /\ hook = [isRunning |-> TRUE, result |-> <<>>, error |-> <<>>]
  /\ provider = <<>>
  /\ now = 0
  /\ rerun = <<>>
  /\ inflight = TRUE
  /\ stale = <<>>

Init == config \in ValidConfigs /\ Constructed /\ FirstRun

InitAny == config \in ValidConfigs \cup InvalidConfigs /\ Constructed /\ FirstRun

(***************************************************************************)
(* simulate(), step by step.                                               *)
(***************************************************************************)
\* loadHistoricalData issues one fetch per ticker
Simulate ==
  /\ pc = "constructed"
  /\ pc' = "fetching"
  /\ pending' = {config.tickers[k] : k \in 1..Len(config.tickers)}
  \* every fetch waits at least 500 ms before it settles
  /\ now' = IF Len(config.tickers) > 0 THEN now + 1 ELSE now
  /\ UNCHANGED <<config, historicalData, tradingDates, dayIndex, prices,
                 signals, portfolio, trades, liquidations, result, error,
                 hook, provider, rerun, inflight, stale>>

\* the fetch of a known ticker completes and its data is stored
FetchResolve(t) ==
  /\ t \in pending
  /\ t \in KnownTickers
  /\ \E s \in ProviderSeries(t) :
       /\ t \in DOMAIN provider => s = provider[t]
       /\ provider' = (t :> s) @@ provider
       /\ historicalData' = (t :> GenerateHistoricalData(s, config.startDate,
                                                         config.endDate))
                            @@ historicalData
  /\ pending' = pending \ {t}
  /\ UNCHANGED <<config, pc, tradingDates, dayIndex, prices, signals,
                 portfolio, trades, liquidations, result, error,
                 hook, now, rerun, inflight, stale>>

\* the failed fetch swallowed: the ticker gets an empty series and the run
\* goes on with the data of the others
FetchReject_Swallow(t) ==
  /\ t \in pending
  /\ t \notin KnownTickers
  /\ pending' = pending \ {t}
  /\ historicalData' = (t :> <<>>) @@ historicalData
  /\ UNCHANGED <<config, pc, error, tradingDates, dayIndex, prices,
                 signals, portfolio, trades, liquidations, result,
                 hook, provider, now, rerun, inflight, stale>>

\* the fetch of an unknown ticker throws; Promise.all rejects at the first
\* rejection and simulate() throws
FetchReject(t) ==
  /\ t \in pending
  /\ t \notin KnownTickers
  /\ pending' = pending \ {t}
  /\ IF pc = "fetching"
     THEN pc' = "failed" /\ error' = <<"Unknown ticker: " \o t>>
     ELSE UNCHANGED <<pc, error>>
  /\ UNCHANGED <<config, historicalData, tradingDates, dayIndex, prices,
                 signals, portfolio, trades, liquidations, result,
                 hook, provider, now, rerun, inflight, stale>>

\* the calendar built as soon as one fetch has completed, without the join
BuildCalendar_NoJoin ==
  /\ pc = "fetching"
  /\ historicalData # <<>>
  /\ tradingDates' = GetTradingDates(historicalData)
  /\ dayIndex' = 0
  /\ pc' = IF Len(tradingDates') > 0 THEN "day" ELSE "metrics"
  /\ UNCHANGED <<config, pending, historicalData, prices, signals, portfolio,
                 trades, liquidations, result, error,
                 hook, provider, now, rerun, inflight, stale>>

\* Promise.all has resolved: getTradingDates and the entry of the loop
BuildCalendar ==
  /\ pc = "fetching"
  /\ pending = {}
  /\ tradingDates' = GetTradingDates(historicalData)
  /\ dayIndex' = 0
  /\ pc' = IF Len(tradingDates') > 0 THEN "day" ELSE "metrics"
  /\ UNCHANGED <<config, pending, historicalData, prices, signals, portfolio,
                 trades, liquidations, result, error,
                 hook, provider, now, rerun, inflight, stale>>

\* simulateDay: the prices of the date and generateSignals
BeginDay ==
  /\ pc = "day"
  /\ LET date == tradingDates[dayIndex + 1]
         pr == DayPrices(historicalData, config.tickers, date)
     IN /\ prices' = pr
        /\ signals' = GenerateSignals(config, historicalData, portfolio, date,
                                      dayIndex, pr)
  /\ pc' = "trade"
  /\ UNCHANGED <<config, pending, historicalData, tradingDates, dayIndex,
                 portfolio, trades, liquidations, result, error,
                 hook, provider, now, rerun, inflight, stale>>

\* simulateDay: executeTrade on the next signal of the day
ExecuteTradeStep ==
  /\ pc = "trade"
  /\ signals # <<>>
  /\ LET signal == Head(signals)
         r == ExecuteTrade(portfolio, trades, signal, tradingDates[dayIndex + 1],
                           PriceOf(prices, signal.ticker))
     IN /\ portfolio' = r.portfolio
        /\ trades' = r.trades
  /\ signals' = Tail(signals)
  /\ UNCHANGED <<config, pc, pending, historicalData, tradingDates, dayIndex,
                 prices, liquidations, result, error,
                 hook, provider, now, rerun, inflight, stale>>

\* simulateDay: updatePortfolioValue after the last signal
UpdatePortfolioValueStep ==
  /\ pc = "trade"
  /\ signals = <<>>
  /\ portfolio' = UpdatePortfolioValue(portfolio, tradingDates[dayIndex + 1], prices)
  /\ pc' = "risk"
  /\ UNCHANGED <<config, pending, historicalData, tradingDates, dayIndex,
                 prices, signals, trades, liquidations, result, error,
                 hook, provider, now, rerun, inflight, stale>>

\* applyRiskControls and the step of the loop
ApplyRiskControlsStep ==
  /\ pc = "risk"
  /\ LET r == ApplyRiskControls(config, portfolio, liquidations,
                                tradingDates[dayIndex + 1])
     IN /\ portfolio' = r.portfolio
        /\ liquidations' = r.liquidations
  /\ dayIndex' = dayIndex + 1
  /\ pc' = IF dayIndex + 1 < Len(tradingDates) THEN "day" ELSE "metrics"
  /\ UNCHANGED <<config, pending, historicalData, tradingDates, prices,
                 signals, trades, result, error,
                 hook, provider, now, rerun, inflight, stale>>

\* calculateMetrics and the return of the SimulationResult
Finish ==
  /\ pc = "metrics"
  /\ result' = <<[portfolio |-> portfolio, trades |-> trades,
                  metrics |-> CalculateMetrics(portfolio, trades)]>>
  /\ pc' = "done"
  /\ UNCHANGED <<config, pending, historicalData, tradingDates, dayIndex,
                 prices, signals, portfolio, trades, liquidations, error,
                 hook, provider, now, rerun, inflight, stale>>

\* the settlement with setIsRunning(false) on the path of success only
HookSettle_NoFinally ==
  /\ inflight
  /\ pc \in {"done", "failed"}
  /\ inflight' = FALSE
  /\ hook' = IF pc = "done"
             THEN [hook EXCEPT !.result = result, !.isRunning = FALSE]
             ELSE [hook EXCEPT !.error = error]
  /\ UNCHANGED <<config, pc, pending, historicalData, tradingDates, dayIndex,
                 prices, signals, portfolio, trades, liquidations, result,
                 error, provider, now, rerun, stale>>

\* handleRunSimulation after the await: setResult or setError, then
\* setIsRunning(false)
HookSettle ==
  /\ inflight
  /\ pc \in {"done", "failed"}
  /\ inflight' = FALSE
  /\ hook' = IF pc = "done"
             THEN [hook EXCEPT !.result = result, !.isRunning = FALSE]
             ELSE [hook EXCEPT !.error = error, !.isRunning = FALSE]
  /\ UNCHANGED <<config, pc, pending, historicalData, tradingDates, dayIndex,
                 prices, signals, portfolio, trades, liquidations, result,
                 error, provider, now, rerun, stale>>

Next ==
  \/ Simulate
  \/ \E t \in pending : FetchResolve(t)
  \/ \E t \in pending : FetchReject(t)
  \/ BuildCalendar
  \/ BeginDay
  \/ ExecuteTradeStep
  \/ UpdatePortfolioValueStep
  \/ ApplyRiskControlsStep
  \/ Finish
  \/ HookSettle

Spec == Init /\ [][Next]_vars

\* runSimulation entered with any configuration, valid or not
SpecEntry == InitAny /\ [][Next]_vars

\* the values the volatility-cap slider is moved to between two runs
VolatilityCaps == {25, 50}

\* handleRunSimulation called a second time, after the first run has
\* settled with a result: setIsRunning(true), setError(null) and a new
\* PortfolioSimulator on the configuration with volatility cap v; the
\* price source and the clock are the ones the first run left
Rerun(v) ==
  /\ pc = "done"
  /\ ~hook.isRunning
  /\ rerun = <<>>
  /\ rerun' = <<config>>
  /\ inflight' = TRUE
  /\ config' = [config EXCEPT !.riskControls.volatilityCap = v]
  /\ hook' = [hook EXCEPT !.isRunning = TRUE, !.error = <<>>]
  /\ pc' = "constructed"
  /\ pending' = {}
  /\ historicalData' = <<>>
  /\ tradingDates' = <<>>
  /\ dayIndex' = 0
  /\ prices' = <<>>
  /\ signals' = <<>>
  /\ portfolio' = NewPortfolio(config')
  /\ trades' = <<>>
  /\ liquidations' = <<>>
  /\ result' = <<>>
  /\ error' = <<>>
  /\ UNCHANGED <<provider, now, stale>>

NextRerun ==
  \/ Next
  \/ \E v \in VolatilityCaps : Rerun(v)

\* the first run of a pair is on one ticker, alone or with an unknown one
InitRerun ==
  /\ config \in {c \in ValidConfigs :
                   \A k \in 1..Len(c.tickers) : c.tickers[k] # "MSFT"}
  /\ Constructed
  /\ FirstRun

\* a first run and, after it has returned, a second run on the same price
\* data
SpecRerun == InitRerun /\ [][NextRerun]_vars

\* the first run of a pair is on two tickers, the second known or not
InitOrder ==
  /\ config \in {Config(tk, 0, LastDate, Capital, "equal-weight",
                         RiskControlsOf(20, 15)) :
                    tk \in {<<"AAPL", "MSFT">>, <<"AAPL", "ZZZZ">>}}
  /\ Constructed
  /\ FirstRun

\* two runs on two tickers, the fetches of each completing in any order
SpecOrder == InitOrder /\ [][NextRerun]_vars

\* the pair of runs, every step of a run that can be taken being taken in
\* the end: the timers of the fetches fire and the continuations run; the
\* second call is up to the user; the first run is on one ticker, alone or
\* with an unknown one, under the equal-weight strategy
InitSettle ==
  /\ config \in {Config(tk, 0, LastDate, Capital, "equal-weight",
                         RiskControlsOf(20, 15)) :
                    tk \in {<<"AAPL">>, <<"AAPL", "ZZZZ">>}}
  /\ Constructed
  /\ FirstRun

SpecSettle == InitSettle /\ [][NextRerun]_vars /\ WF_vars(Next)

(***************************************************************************)
(* TradeLog (src/src/components/TradeLog.tsx), rendered by App with the    *)
(* trades of the result the hook holds.                                    *)
(***************************************************************************)
Filters == {"all", "buy", "sell"}
SortFields == {"date", "ticker", "value"}
SortDirections == {"asc", "desc"}
\* the texts typed in the ticker search: nothing, or a whole ticker
Searches == {"", "aapl", "msft"}

\* toLowerCase on the strings TradeLog applies it to
ToLowerCase(str) ==
  CASE str = "AAPL" -> "aapl"
    [] str = "MSFT" -> "msft"
    [] str = "ZZZZ" -> "zzzz"
    [] str = "BUY" -> "buy"
    [] str = "SELL" -> "sell"
    [] OTHER -> str

\* a.ticker.localeCompare(b.ticker) on the tickers of the model
LocaleCompare(a, b) ==
  LET rank(t) == CASE t = "AAPL" -> 1 [] t = "MSFT" -> 2 [] OTHER -> 3
  IN rank(a) - rank(b)

\* the comparator handed to sort
Comparison(a, b, sortField, sortDirection) ==
  LET comparison == CASE sortField = "date" -> a.date - b.date
                      [] sortField = "ticker" -> LocaleCompare(a.ticker, b.ticker)
                      [] sortField = "value" -> a.value - b.value
  IN IF sortDirection = "asc" THEN comparison ELSE -comparison

RECURSIVE SortTrades(_, _, _)
\* Array.prototype.sort, which is stable: each element goes after the
\* elements before it that do not compare greater
SortTrades(tr, sortField, sortDirection) ==
  IF tr = <<>> THEN <<>>
  ELSE LET init == SortTrades(SubSeq(tr, 1, Len(tr) - 1), sortField, sortDirection)
           x == Last(tr)
           after == {i \in 1..Len(init) :
                       Comparison(init[i], x, sortField, sortDirection) <= 0}
           at == IF after = {} THEN 0
                 ELSE CHOOSE i \in after : \A j \in after : j <= i
       IN SubSeq(init, 1, at) \o <<x>> \o SubSeq(init, at + 1, Len(init))

\* filteredAndSortedTrades: shown is the array it returns and trades the
\* array of the props afterwards; filter() makes a new array, and without a
\* filter or a search text the array sorted in place is the one of the props
FilteredAndSortedTrades(tr, filter, sortField, sortDirection, searchTicker) ==
  LET byAction == IF filter # "all"
                  THEN SelectSeq(tr, LAMBDA t : ToLowerCase(t.action) = filter)
                  ELSE tr
      \* includes(): the search texts of the model match a whole ticker
      bySearch == IF searchTicker # ""
                  THEN SelectSeq(byAction,
                         LAMBDA t : ToLowerCase(t.ticker) = ToLowerCase(searchTicker))
                  ELSE byAction
      sorted == SortTrades(bySearch, sortField, sortDirection)
  IN [shown |-> sorted,
      trades |-> IF filter = "all" /\ searchTicker = "" THEN sorted ELSE tr]

\* App renders TradeLog with the trades of the result the hook holds, the
\* component being in some state of its filter, sort and search
RenderTradeLog(filter, sortField, sortDirection, searchTicker) ==
  /\ hook.result # <<>>
  /\ hook' = [hook EXCEPT !.result[1].trades =
                FilteredAndSortedTrades(hook.result[1].trades, filter, sortField,
                                        sortDirection, searchTicker).trades]
  /\ UNCHANGED <<config, pc, pending, historicalData, tradingDates, dayIndex,
                 prices, signals, portfolio, trades, liquidations, result,
                 error, provider, now, rerun, inflight, stale>>

NextView ==
  \/ Next
  \/ \E filter \in Filters, sortField \in SortFields,
        sortDirection \in SortDirections, searchTicker \in Searches :
        RenderTradeLog(filter, sortField, sortDirection, searchTicker)

\* one run and the display of its result
SpecView == InitRerun /\ [][NextView]_vars

(***************************************************************************)
(* The hook and the App's buttons while runs are in flight.  A run waits   *)
(* at the await of its fetches until their timers fire; from the last      *)
(* timer to the hook's finally block everything runs in promise            *)
(* continuations, which no click and no other timer interrupts.            *)
(***************************************************************************)
\* the invocations of handleRunSimulation that one session makes
MaxRuns == 3

\* the invocation the engine variables describe, as it waits for its timers
Suspended ==
  [config |-> config, pending |-> pending, historicalData |-> historicalData]

\* a click handler or the timer of another invocation can run now: no
\* invocation is between its last timer and its finally block
UiTurn == ~inflight \/ (pc = "fetching" /\ pending # {})

\* the hook's runSimulation(cfg): setIsRunning(true), setError(null), a new
\* PortfolioSimulator; an invocation still waiting for its fetches stays
\* behind with its timers
CallRun(cfg) ==
  /\ UiTurn
  /\ now < MaxRuns
  /\ stale' = IF inflight THEN Append(stale, Suspended) ELSE stale
  /\ inflight' = TRUE
  /\ hook' = [hook EXCEPT !.isRunning = TRUE, !.error = <<>>]
  /\ config' = cfg
  /\ pc' = "constructed"
  /\ pending' = {}
  /\ historicalData' = <<>>
  /\ tradingDates' = <<>>
  /\ dayIndex' = 0
  /\ prices' = <<>>
  /\ signals' = <<>>
  /\ portfolio' = NewPortfolio(cfg)
  /\ trades' = <<>>
  /\ liquidations' = <<>>
  /\ result' = <<>>
  /\ error' = <<>>
  /\ UNCHANGED <<provider, now, rerun>>

\* the hook's reset(): setResult(null), setError(null), setIsRunning(false)
CallReset ==
  /\ UiTurn
  /\ hook' = [isRunning |-> FALSE, result |-> <<>>, error |-> <<>>]
  /\ UNCHANGED <<config, pc, pending, historicalData, tradingDates, dayIndex,
                 prices, signals, portfolio, trades, liquidations, result,
                 error, provider, now, rerun, inflight, stale>>

\* the timers of the k-th waiting invocation are the next to fire: the
\* engine variables turn to it, and the invocation they described, if it
\* has not settled, waits in its place
Switch(k) ==
  /\ UiTurn
  /\ k \in 1..Len(stale)
  /\ stale' = IF inflight
              THEN [stale EXCEPT ![k] = Suspended]
              ELSE SubSeq(stale, 1, k - 1) \o SubSeq(stale, k + 1, Len(stale))
  /\ inflight' = TRUE
  /\ config' = stale[k].config
  /\ pc' = "fetching"
  /\ pending' = stale[k].pending
  /\ historicalData' = stale[k].historicalData
  /\ tradingDates' = <<>>
  /\ dayIndex' = 0
  /\ prices' = <<>>
  /\ signals' = <<>>
  /\ portfolio' = NewPortfolio(stale[k].config)
  /\ trades' = <<>>
  /\ liquidations' = <<>>
  /\ result' = <<>>
  /\ error' = <<>>
  /\ UNCHANGED <<hook, provider, now, rerun>>

\* canRunSimulation of the App; the two dates are never empty strings here
CanRunSimulation(cfg) == Len(cfg.tickers) > 0 /\ cfg.initialCapital > 0

\* the configurations the App's form holds in a session
AppConfigs ==
  {Config(tk, 0, LastDate, Capital, "equal-weight", RiskControlsOf(20, 15)) :
     tk \in {<<"AAPL">>, <<"AAPL", "ZZZZ">>}}

\* a click on Run Backtest: the button is disabled unless canRunSimulation
\* holds and isRunning is false
ClickRun(cfg) ==
  /\ CanRunSimulation(cfg)
  /\ ~hook.isRunning
  /\ CallRun(cfg)

\* a click on Reset: the button is rendered while result is set
ClickReset ==
  /\ hook.result # <<>>
  /\ CallReset

NextApp ==
  \/ Next
  \/ \E cfg \in AppConfigs : ClickRun(cfg)
  \/ ClickReset
  \/ \E k \in 1..Len(stale) : Switch(k)

InitApp == config \in AppConfigs /\ Constructed /\ FirstRun

\* a session of the App: Run Backtest has been clicked once, and the user
\* goes on clicking what the App lets them click
SpecApp == InitApp /\ [][NextApp]_vars

NextHook ==
  \/ Next
  \/ \E cfg \in AppConfigs : CallRun(cfg)
  \/ CallReset
  \/ \E k \in 1..Len(stale) : Switch(k)

\* a component calling the hook's runSimulation and reset at any time
SpecHook == InitApp /\ [][NextHook]_vars

(***************************************************************************)
(* Vocabulary of the properties.                                           *)
(***************************************************************************)
\* a day has been marked to market and its prices are still the current ones
Marked == pc \in {"risk", "day", "metrics", "done"} /\ Len(portfolio.dates) > 0

\* the risk controls of the last marked day have run
DayEnded == pc \in {"day", "metrics", "done"} /\ Len(portfolio.dates) > 0

\* liquidateAll ran with the reason on the last marked day
LiquidatedToday(reason) ==
  \E k \in 1..Len(liquidations) :
     liquidations[k] = [date |-> Last(portfolio.dates), reason |-> reason]

RECURSIVE HeldValueFrom(_)
\* quantity * close over the configured tickers from index k on, at the
\* current prices, 0 for a ticker that is not held or has no price
HeldValueFrom(k) ==
  IF k > Len(config.tickers) THEN 0
  ELSE LET t == config.tickers[k]
       IN (IF t \in DOMAIN portfolio.assets /\ t \in DOMAIN prices
           THEN portfolio.assets[t] * prices[t] ELSE 0)
          + HeldValueFrom(k + 1)

\* the largest valuation recorded so far, the seed included
PeakValue ==
  CHOOSE v \in {portfolio.values[i] : i \in 1..Len(portfolio.values)} :
     \A i \in 1..Len(portfolio.values) : portfolio.values[i] <= v

CurrentValue == portfolio.values[Len(portfolio.values)]

\* (peak - current) / peak > maxDrawdown / 100, peak > 0
DrawdownExceeded ==
  (PeakValue - CurrentValue) * 100 > config.riskControls.maxDrawdown * PeakValue

\* (initialCapital - current) / initialCapital > stopLoss / 100
LossExceeded ==
  (config.initialCapital - CurrentValue) * 100
     > config.riskControls.stopLoss * config.initialCapital

(***************************************************************************)
(* C1: once a day is marked to market, and after the risk controls of the  *)
(* day, total value = cash + sum over the held tickers of quantity * close *)
(* of the day, a held ticker without a price counting 0; after a forced    *)
(* liquidation the positions are empty and cash = total value.             *)
(***************************************************************************)
C1_TotalValueIdentity ==
  Marked =>
    /\ portfolio.totalValue = portfolio.cash + HeldValueFrom(1)
    /\ (DayEnded /\ (LiquidatedToday(MaxDrawdownReason)
                     \/ LiquidatedToday(StopLossReason)))
         => (portfolio.assets = <<>> /\ portfolio.cash = portfolio.totalValue)

\* a day is marked while a held ticker has no price
C1_Witness ==
  /\ pc = "risk"
  /\ \E t \in DOMAIN portfolio.assets : t \notin DOMAIN prices
  /\ portfolio.totalValue > portfolio.cash

(***************************************************************************)
(* C2: every dailyReturns[i] is (values[i+1] - values[i]) / values[i].     *)
(* (Indices from 1 here, from 0 in the code.)                              *)
(***************************************************************************)
C2_ReturnAgainstPrecedingValuation ==
  \A i \in 1..Len(portfolio.dailyReturns) :
     /\ portfolio.dailyReturns[i].den # 0
     /\ portfolio.values[i] # 0
     /\ portfolio.dailyReturns[i].num * portfolio.values[i]
          = (portfolio.values[i + 1] - portfolio.values[i])
              * portfolio.dailyReturns[i].den

(***************************************************************************)
(* C3: values[0] is initialCapital and                                     *)
(* len(dailyReturns) = len(dates) = len(values) - 1, at every point.       *)
(***************************************************************************)
C3_SeedAndLengths ==
  /\ portfolio.values[1] = config.initialCapital
  /\ Len(portfolio.dailyReturns) = Len(portfolio.dates)
  /\ Len(portfolio.dates) = Len(portfolio.values) - 1

\* several days have been simulated
C3_Witness == pc = "done" /\ Len(portfolio.values) >= 3

(***************************************************************************)
(* C4: a forced liquidation clears the positions and leaves cash equal to  *)
(* the total value marked to market that day.                              *)
(***************************************************************************)
C4_LiquidationCreditsCash ==
  (DayEnded /\ (LiquidatedToday(MaxDrawdownReason)
                \/ LiquidatedToday(StopLossReason)))
    => (portfolio.assets = <<>> /\ portfolio.cash = CurrentValue)

(***************************************************************************)
(* C5: the drawdown control liquidates on a day iff                        *)
(* (peak - current) / peak > maxDrawdown / 100, peak being the largest     *)
(* valuation so far with the seed; a drawdown equal to the limit does not. *)
(***************************************************************************)
C5_DrawdownTrigger ==
  DayEnded => (LiquidatedToday(MaxDrawdownReason) <=> DrawdownExceeded)

\* a day ended with the drawdown exactly at the limit, peak above the seed
C5_Witness ==
  /\ DayEnded
  /\ (PeakValue - CurrentValue) * 100 = config.riskControls.maxDrawdown * PeakValue
  /\ PeakValue > config.initialCapital
  /\ ~LiquidatedToday(MaxDrawdownReason)

(***************************************************************************)
(* C6: on a day whose loss from initialCapital exceeds stopLoss while the  *)
(* drawdown does not exceed maxDrawdown, the liquidation carries the       *)
(* stop-loss reason and not the max-drawdown reason.                       *)
(***************************************************************************)
C6_StopLossReason ==
  (DayEnded /\ LossExceeded /\ ~DrawdownExceeded)
    => (LiquidatedToday(StopLossReason) /\ ~LiquidatedToday(MaxDrawdownReason))

\* such a day, with positions held until the liquidation
C6_Witness ==
  /\ DayEnded /\ LossExceeded /\ ~DrawdownExceeded
  /\ Len(liquidations) = 1
  /\ trades # <<>>

(***************************************************************************)
(* C7: after a forced liquidation no trade is executed on a later day and  *)
(* the positions stay empty.                                               *)
(***************************************************************************)
C7_LiquidationIsTerminal ==
  \A k \in 1..Len(liquidations) :
     /\ \A i \in 1..Len(trades) : trades[i].date <= liquidations[k].date
     /\ (Len(portfolio.dates) > 0 /\ Last(portfolio.dates) > liquidations[k].date)
          => portfolio.assets = <<>>

\* executeTrade is about to run on a signal with the action, at a price
Executing(action) ==
  /\ pc = "trade"
  /\ signals # <<>>
  /\ Head(signals).action = action
  /\ Head(signals).ticker \in DOMAIN prices

HeldQuantity(pf, t) == IF t \in DOMAIN pf.assets THEN pf.assets[t] ELSE 0

\* the ledger and the trade log are as before, and no error is raised
LedgerUnchanged ==
  /\ portfolio' = portfolio
  /\ trades' = trades
  /\ error' = error
  /\ pc' # "failed"

\* the positions other than ticker t are as before
OtherPositionsUnchanged(t) ==
  /\ DOMAIN portfolio'.assets \ {t} = DOMAIN portfolio.assets \ {t}
  /\ \A u \in DOMAIN portfolio.assets \ {t} :
        portfolio'.assets[u] = portfolio.assets[u]

\* exactly one Trade with the action, quantity q and price p is appended
OneTradeAppended(action, t, q, p) ==
  /\ Len(trades') = Len(trades) + 1
  /\ SubSeq(trades', 1, Len(trades)) = trades
  /\ Last(trades').ticker = t
  /\ Last(trades').action = action
  /\ Last(trades').quantity = q
  /\ Last(trades').price = p
  /\ Last(trades').value = q * p
  /\ Last(trades').date = tradingDates[dayIndex + 1]

(***************************************************************************)
(* C8: a BUY signal at price p has target = weight * total value when a    *)
(* weight is given, else min(0.2 * cash, 10000), and quantity =            *)
(* floor(target / p); it executes iff quantity > 0 and quantity * p <=     *)
(* cash, and then the position grows by quantity, cash falls by            *)
(* quantity * p and one Trade is appended; otherwise cash, positions and   *)
(* the trade log are unchanged and no error is raised.                     *)
(***************************************************************************)
C8_BuyExecution ==
  [][Executing("BUY") =>
       LET sig == Head(signals)
           p == prices[sig.ticker]
           \* target as a fraction tn / td
           tn == IF sig.weight # <<>> THEN sig.weight[1].num * portfolio.totalValue
                 ELSE IF portfolio.cash <= 50000 THEN portfolio.cash ELSE 10000
           td == IF sig.weight # <<>> THEN sig.weight[1].den
                 ELSE IF portfolio.cash <= 50000 THEN 5 ELSE 1
           \* floor(target / p): q * p <= target < (q + 1) * p
           q == CHOOSE k \in 0..(tn + 1) :
                   k * p * td <= tn /\ tn < (k + 1) * p * td
       IN IF q > 0 /\ q * p <= portfolio.cash
          THEN /\ portfolio'.assets[sig.ticker]
                    = HeldQuantity(portfolio, sig.ticker) + q
               /\ OtherPositionsUnchanged(sig.ticker)
               /\ portfolio'.cash = portfolio.cash - q * p
               /\ OneTradeAppended("BUY", sig.ticker, q, p)
          ELSE LedgerUnchanged]_vars

\* BUYs have executed earlier and the rebalancing BUY of the first ticker,
\* under-weight with floor(target / p) > 0, has just been dropped for lack
\* of cash
C8_Witness ==
  /\ pc = "trade"
  /\ signals = <<>>
  /\ dayIndex = RebalanceDays
  /\ config.strategy = "equal-weight"
  /\ trades # <<>>
  /\ \A i \in 1..Len(trades) :
        trades[i].action = "BUY" /\ trades[i].date < tradingDates[dayIndex + 1]
  /\ LET t == config.tickers[1]
         n == Len(config.tickers)
     IN /\ t \in DOMAIN portfolio.assets
        /\ t \in DOMAIN prices
        /\ portfolio.assets[t] * prices[t] * n * 20 < (20 - n) * portfolio.totalValue
        /\ portfolio.totalValue >= n * prices[t]

(***************************************************************************)
(* C9: a SELL signal for a ticker held with quantity q > 0 removes the     *)
(* position, credits cash by q * price and appends one SELL Trade of       *)
(* quantity q; for a ticker that is not held it changes nothing.           *)
(***************************************************************************)
C9_SellExecution ==
  [][Executing("SELL") =>
       LET sig == Head(signals)
           p == prices[sig.ticker]
           q == HeldQuantity(portfolio, sig.ticker)
       IN IF q > 0
          THEN /\ sig.ticker \notin DOMAIN portfolio'.assets
               /\ OtherPositionsUnchanged(sig.ticker)
               /\ portfolio'.cash = portfolio.cash + q * p
               /\ OneTradeAppended("SELL", sig.ticker, q, p)
          ELSE LedgerUnchanged]_vars

\* a SELL has closed a position while another position stays open
C9_Witness ==
  /\ trades # <<>>
  /\ Last(trades).action = "SELL"
  /\ Last(trades).ticker \notin DOMAIN portfolio.assets
  /\ portfolio.assets # <<>>
  /\ pc = "trade"

(***************************************************************************)
(* C10: runSimulation with an invalid configuration (no ticker, startDate  *)
(* not before endDate, or initialCapital <= 0) never returns a             *)
(* SimulationResult and fetches no price data.                             *)
(***************************************************************************)
C10_InvalidConfigRejected ==
  ~ValidConfig(config) => (result = <<>> /\ pc \in {"constructed", "failed"})

(***************************************************************************)
(* C11: once the fetch of a configured ticker has failed, the run has      *)
(* failed with that error: no calendar is built, no day is simulated, no   *)
(* SimulationResult is returned, and when the caller settles its error     *)
(* state holds the message.                                                *)
(***************************************************************************)
C11_FetchFailureFailsRun ==
  \A k \in 1..Len(config.tickers) :
     LET t == config.tickers[k]
     IN (t \notin KnownTickers /\ pc # "constructed" /\ t \notin pending)
          => /\ pc = "failed"
             /\ error = <<"Unknown ticker: " \o t>>
             /\ result = <<>>
             /\ tradingDates = <<>>
             /\ portfolio.dates = <<>>
             /\ trades = <<>>
             /\ hook.result = <<>>
             /\ ~hook.isRunning => hook.error = error

\* the caller has settled with the message although the data of the other
\* ticker has arrived
C11_Witness ==
  /\ pc = "failed"
  /\ ~hook.isRunning
  /\ hook.error = <<"Unknown ticker: ZZZZ">>
  /\ "AAPL" \in DOMAIN historicalData

\* two quotients with non-zero denominators denote the same number
SameNumber(a, b) == a.den # 0 /\ b.den # 0 /\ a.num * b.den = b.num * a.den

\* the current drawdown the risk check evaluated on the k-th simulated day
DrawdownOnDay(k) ==
  CalculateCurrentDrawdown(
    [portfolio EXCEPT !.values = SubSeq(portfolio.values, 1, k + 1)])

(***************************************************************************)
(* C13: on every day the maximum drawdown over the valuations recorded so  *)
(* far is >= the current drawdown the risk check evaluates that day, and   *)
(* the maxDrawdown metric of the result equals the maximum over all days   *)
(* of that day's current drawdown.                                         *)
(***************************************************************************)
C13_MaxDrawdownDominates ==
  /\ Marked =>
       LET md == CalculateMaxDrawdown(portfolio)
           cd == CalculateCurrentDrawdown(portfolio)
       IN /\ ~IsNaN(md) /\ ~IsNaN(cd)
          /\ ~JsFracGreater(cd, md)
  /\ (pc = "done" /\ Len(portfolio.dates) > 0) =>
       LET md == result[1].metrics.maxDrawdown
           days == 1..Len(portfolio.dates)
       IN /\ \E k \in days : SameNumber(md, DrawdownOnDay(k))
          /\ \A k \in days : ~JsFracGreater(DrawdownOnDay(k), md)

\* a run has ended below an earlier peak that was above the seed, the last
\* day not being the day of the largest drawdown
C13_Witness ==
  /\ pc = "done"
  /\ PeakValue > config.initialCapital
  /\ CurrentValue < PeakValue
  /\ JsFracGreater(result[1].metrics.maxDrawdown,
                   CalculateCurrentDrawdown(portfolio))

(***************************************************************************)
(* C14: the trade log is append-only over every step of the engine: the    *)
(* log after a step has the log before it as a prefix (so the log at any   *)
(* later point has the log at any earlier point as a prefix), every        *)
(* appended Trade has an integer quantity > 0 and value = quantity *       *)
(* price, and the result returns the log as it stands.                     *)
(***************************************************************************)
C14_TradeLogAppendOnly ==
  [][/\ Len(trades') >= Len(trades)
     /\ SubSeq(trades', 1, Len(trades)) = trades
     /\ \A i \in (Len(trades) + 1)..Len(trades') :
           /\ trades'[i].quantity \in Nat \ {0}
           /\ trades'[i].value = trades'[i].quantity * trades'[i].price
     /\ pc' = "done" => result'[1].trades = trades]_vars

\* a run has ended with BUYs and SELLs in its log and a win rate computed
\* from them
C14_Witness ==
  /\ pc = "done"
  /\ Len(trades) >= 3
  /\ \E i, j \in 1..Len(trades) :
        i < j /\ trades[i].action = "BUY" /\ trades[j].action = "SELL"
  /\ result[1].metrics.winRate.num > 0
  /\ liquidations = <<>>

\* the sum of the values of the trades from index k on
RECURSIVE TradeValuesFrom(_, _)
TradeValuesFrom(tr, k) ==
  IF k > Len(tr) THEN 0 ELSE tr[k].value + TradeValuesFrom(tr, k + 1)

(***************************************************************************)
(* C15: on day 0 under equal-weight with N tickers, generateSignals emits  *)
(* exactly N BUY signals, one per ticker in the configured order, each     *)
(* with weight 1/N; every trade of the day has value <= initialCapital /   *)
(* N, and cash during and after the day's trades is initialCapital minus   *)
(* the sum of the values of the executed trades.                           *)
(***************************************************************************)
C15_DayZeroEqualWeight ==
  [][LET n == Len(config.tickers)
     IN /\ (pc = "day" /\ dayIndex = 0 /\ config.strategy = "equal-weight")
             => /\ Len(signals') = n
                /\ \A k \in 1..n :
                      /\ signals'[k].ticker = config.tickers[k]
                      /\ signals'[k].action = "BUY"
                      /\ signals'[k].weight = <<Frac(1, n)>>
        /\ (pc' \in {"trade", "risk"} /\ dayIndex' = 0
              /\ config.strategy = "equal-weight")
             => /\ \A i \in 1..Len(trades') :
                      /\ trades'[i].action = "BUY"
                      /\ trades'[i].date = tradingDates[1]
                      /\ trades'[i].value * n <= config.initialCapital
                /\ portfolio'.cash
                     = config.initialCapital - TradeValuesFrom(trades', 1)]_vars

\* day 0 of a two-ticker run has been marked with both BUYs executed
C15_Witness ==
  /\ pc = "risk"
  /\ dayIndex = 0
  /\ config.strategy = "equal-weight"
  /\ Len(config.tickers) = 2
  /\ Len(trades) = 2
  /\ trades[1].ticker # trades[2].ticker
  /\ portfolio.cash < config.initialCapital

\* the closes of ticker t rise strictly over its first LookbackDays + 1 bars
\* and its momentum on the last of them is above 5%
RisingWithMomentum(t) ==
  /\ t \in DOMAIN historicalData
  /\ Len(historicalData[t]) >= LookbackDays + 1
  /\ \A i \in 1..LookbackDays :
        historicalData[t][i].close < historicalData[t][i + 1].close
  /\ historicalData[t][LookbackDays + 1].date = tradingDates[LookbackDays + 1]
  /\ LET recent == GetRecentPrices(historicalData, t,
                                   tradingDates[LookbackDays + 1], LookbackDays)
     IN Len(recent) = LookbackDays
        /\ (Last(recent) - recent[1]) * 100 > 5 * recent[1]

(***************************************************************************)
(* C16: under momentum no signal is emitted before day index 20; a BUY     *)
(* signal is emitted only for a ticker without an open position, with      *)
(* weight 0.2; a ticker whose closes rise strictly over 21 days with       *)
(* momentum above 5% gets its BUY signal on day index 20; and no BUY trade *)
(* is recorded for a ticker while its position is open.                    *)
(***************************************************************************)
C16_MomentumBuysOnlyWhenFlat ==
  [][config.strategy = "momentum" =>
       /\ pc = "day" =>
            /\ dayIndex < LookbackDays => signals' = <<>>
            /\ \A k \in 1..Len(signals') :
                  signals'[k].action = "BUY"
                    => /\ signals'[k].ticker \notin DOMAIN portfolio.assets
                       /\ signals'[k].weight = <<Frac(1, 5)>>
            /\ \A j \in 1..Len(config.tickers) :
                  (dayIndex = LookbackDays /\ RisingWithMomentum(config.tickers[j]))
                    => \E k \in 1..Len(signals') :
                          /\ signals'[k].ticker = config.tickers[j]
                          /\ signals'[k].action = "BUY"
       /\ \A i \in (Len(trades) + 1)..Len(trades') :
             trades'[i].action = "BUY"
               => trades'[i].ticker \notin DOMAIN portfolio.assets]_vars

\* the rising ticker was bought on day index 20 and not again on the next
\* day, its position being open
C16_Witness ==
  /\ pc = "done"
  /\ config.strategy = "momentum"
  /\ RisingWithMomentum("AAPL")
  /\ Len(trades) = 1
  /\ trades[1].action = "BUY"
  /\ trades[1].date = tradingDates[LookbackDays + 1]
  /\ Len(tradingDates) > LookbackDays + 1
  /\ "AAPL" \in DOMAIN portfolio.assets

\* the second run has returned and the caller still holds the result of the
\* first
SecondRunReturned == rerun # <<>> /\ pc = "done" /\ hook.isRunning

(***************************************************************************)
(* C12: two runs of the same configuration on the same price data return   *)
(* the same trade log, every field of every Trade in the same order, and   *)
(* the same metrics.                                                       *)
(***************************************************************************)
C12_RerunIdentical ==
  (SecondRunReturned /\ config = rerun[1])
    => /\ result[1].trades = hook.result[1].trades
       /\ result[1].metrics = hook.result[1].metrics

\* a Trade without its id
TradeFields(t) ==
  [date |-> t.date, ticker |-> t.ticker, action |-> t.action,
   quantity |-> t.quantity, price |-> t.price]

C18_CashNeverNegative == portfolio.cash >= 0

\* a run has ended after a SELL and a later BUY, part of the cash spent
C18_Witness ==
  /\ pc = "done"
  /\ portfolio.cash < config.initialCapital
  /\ \E i, j \in 1..Len(trades) :
        i < j /\ trades[i].action = "SELL" /\ trades[j].action = "BUY"

(***************************************************************************)
(* C19: on every day the stop-loss liquidation fires iff                   *)
(* (initialCapital - V) / initialCapital > stopLoss / 100, V being the     *)
(* valuation marked to market that day, whether or not the drawdown        *)
(* control liquidated earlier on the day.                                  *)
(***************************************************************************)
C19_StopLossIndependent ==
  DayEnded => (LiquidatedToday(StopLossReason) <=> LossExceeded)

\* the index, from 0, of a date among the trading dates
IndexOfDate(d) == (CHOOSE k \in 1..Len(tradingDates) : tradingDates[k] = d) - 1

(***************************************************************************)
(* C20: under equal-weight signals are emitted only on days whose index is *)
(* a multiple of 20; on such a day with index # 0 a ticker with a close on *)
(* the day gets a signal iff |positionValue / totalValue - 1/N| > 0.05     *)
(* (no signal when totalValue is 0 and the quotient is not a number), a    *)
(* SELL when over-weight and a BUY when under-weight, with weight 1/N; and *)
(* every trade is dated on a trading day whose index is a multiple of 20.  *)
(***************************************************************************)
C20_EqualWeightRebalancing ==
  [][config.strategy = "equal-weight" =>
       /\ pc = "day" =>
            LET n == Len(config.tickers)
                tv == portfolio.totalValue
                pv(t) == HeldQuantity(portfolio, t) * prices'[t]
                \* positionValue / totalValue - 1/N > 0.05, times 20 * N * tv
                over(t) == tv > 0 /\ pv(t) * 20 * n > (20 + n) * tv
                under(t) == tv > 0 /\ pv(t) * 20 * n < (20 - n) * tv
                signalsOf(t) == {k \in 1..Len(signals') : signals'[k].ticker = t}
            IN /\ dayIndex % RebalanceDays # 0 => signals' = <<>>
               /\ (dayIndex % RebalanceDays = 0 /\ dayIndex # 0)
                    => \A j \in 1..n :
                          LET t == config.tickers[j]
                          IN t \in DOMAIN prices'
                               => /\ Cardinality(signalsOf(t))
                                       = IF over(t) \/ under(t) THEN 1 ELSE 0
                                  /\ \A k \in signalsOf(t) :
                                        /\ signals'[k].action
                                             = IF over(t) THEN "SELL" ELSE "BUY"
                                        /\ signals'[k].weight = <<Frac(1, n)>>
       /\ \A i \in (Len(trades) + 1)..Len(trades') :
             IndexOfDate(trades'[i].date) % RebalanceDays = 0]_vars

\* on day index 20 of a two-ticker run one ticker is over-weight and gets a
\* SELL, the other is under-weight and gets a BUY
C20_Witness ==
  /\ pc = "trade"
  /\ dayIndex = RebalanceDays
  /\ config.strategy = "equal-weight"
  /\ Len(signals) = 2
  /\ \E i, j \in 1..2 : signals[i].action = "SELL" /\ signals[j].action = "BUY"
  /\ Len(trades) = 2

\* the closes of the bars of ticker t up to the current date of the day
\* being begun, the last days of them; <<>> when t has no bar on the date
\* or fewer than days bars up to it
Window(t, days) ==
  LET data == IF t \in DOMAIN historicalData THEN historicalData[t] ELSE <<>>
      upTo == SelectSeq(data, LAMBDA b : b.date <= tradingDates[dayIndex + 1])
  IN IF upTo = <<>> \/ Last(upTo).date # tradingDates[dayIndex + 1]
        \/ Len(upTo) < days
     THEN <<>>
     ELSE [k \in 1..days |-> upTo[Len(upTo) - days + k].close]

\* the signals of signals' for ticker t, in order
SignalsFor(t) == SelectSeq(signals', LAMBDA sg : sg.ticker = t)

(***************************************************************************)
(* C21: under momentum no signal is emitted on a day with index < 20 or    *)
(* for a ticker with fewer than 20 closes ending at the current date;      *)
(* otherwise, momentum being (latest - earliest) / earliest over the 20    *)
(* closes, the ticker gets one BUY with weight 0.2 iff momentum > 0.05 and *)
(* it has no position, one SELL without weight (the whole position) iff    *)
(* momentum < -0.05 and it has a position, and no signal otherwise.        *)
(***************************************************************************)
C21_MomentumSignals ==
  [][(config.strategy = "momentum" /\ pc = "day") =>
       \A j \in 1..Len(config.tickers) :
          LET t == config.tickers[j]
              w == Window(t, LookbackDays)
              held == t \in DOMAIN portfolio.assets
              up == (w[LookbackDays] - w[1]) * 100 > 5 * w[1]
              down == (w[LookbackDays] - w[1]) * 100 < -5 * w[1]
          IN IF dayIndex < LookbackDays \/ w = <<>>
             THEN SignalsFor(t) = <<>>
             ELSE IF up /\ ~held
             THEN /\ Len(SignalsFor(t)) = 1
                  /\ SignalsFor(t)[1].action = "BUY"
                  /\ SignalsFor(t)[1].weight = <<Frac(1, 5)>>
             ELSE IF down /\ held
             THEN /\ Len(SignalsFor(t)) = 1
                  /\ SignalsFor(t)[1].action = "SELL"
                  /\ SignalsFor(t)[1].weight = <<>>
             ELSE SignalsFor(t) = <<>>]_vars

\* on day index 21 the ticker bought the day before is sold on negative
\* momentum, in a run whose other ticker had only 19 closes on day index 20
C21_Witness ==
  /\ pc = "trade"
  /\ dayIndex = LookbackDays + 1
  /\ config.strategy = "momentum"
  /\ Len(signals) = 1
  /\ signals[1].action = "SELL"
  /\ signals[1].ticker \in DOMAIN portfolio.assets
  /\ "MSFT" \in DOMAIN historicalData
  /\ Len(historicalData["MSFT"]) = LookbackDays

(***************************************************************************)
(* C22: under mean-reversion no signal is emitted on a day with index <    *)
(* 20; on a later day, for a ticker with 20 closes ending at the current   *)
(* date (inclusive) and deviation = (current close - mean of the 20) /     *)
(* mean, the ticker gets one BUY with weight 0.2 iff deviation < -0.10 and *)
(* it has no position, one SELL without weight (the whole position) iff    *)
(* deviation > 0.10 and it has a position, and no signal otherwise.        *)
(***************************************************************************)
C22_MeanReversionSignals ==
  [][(config.strategy = "mean-reversion" /\ pc = "day") =>
       \A j \in 1..Len(config.tickers) :
          LET t == config.tickers[j]
              w == Window(t, LookbackDays)
              held == t \in DOMAIN portfolio.assets
              sum == SeqSum(w)
              \* (close - sum / 20) / (sum / 20) against -1/10 and 1/10
              low == (w[LookbackDays] * LookbackDays - sum) * 10 < -sum
              high == (w[LookbackDays] * LookbackDays - sum) * 10 > sum
          IN IF dayIndex < LookbackDays \/ w = <<>>
             THEN SignalsFor(t) = <<>>
             ELSE IF low /\ ~held
             THEN /\ Len(SignalsFor(t)) = 1
                  /\ SignalsFor(t)[1].action = "BUY"
                  /\ SignalsFor(t)[1].weight = <<Frac(1, 5)>>
             ELSE IF high /\ held
             THEN /\ Len(SignalsFor(t)) = 1
                  /\ SignalsFor(t)[1].action = "SELL"
                  /\ SignalsFor(t)[1].weight = <<>>
             ELSE SignalsFor(t) = <<>>]_vars

\* on day index 21 the ticker bought oversold the day before is sold
\* overbought
C22_Witness ==
  /\ pc = "trade"
  /\ dayIndex = LookbackDays + 1
  /\ config.strategy = "mean-reversion"
  /\ Len(signals) = 1
  /\ signals[1].action = "SELL"
  /\ trades # <<>>
  /\ Last(trades).action = "BUY"
  /\ Last(trades).ticker = signals[1].ticker

\* the sum of the values of the trades of tr with the action
RECURSIVE ValueOf(_, _)
ValueOf(tr, action) ==
  IF tr = <<>> THEN 0
  ELSE (IF Head(tr).action = action THEN Head(tr).value ELSE 0)
       + ValueOf(Tail(tr), action)

(***************************************************************************)
(* C25: at every point of a run cash = initialCapital - the values of the  *)
(* BUY trades of the log + the values of the SELL trades of the log; a     *)
(* forced liquidation leaves cash as it is.                                *)
(***************************************************************************)
C25_CashFromTradeLog ==
  portfolio.cash
    = config.initialCapital - ValueOf(trades, "BUY") + ValueOf(trades, "SELL")

\* a forced liquidation has emptied positions that were worth something,
\* after BUYs
C25_Witness ==
  /\ DayEnded
  /\ LiquidatedToday(MaxDrawdownReason)
  /\ CurrentValue > portfolio.cash
  /\ ValueOf(trades, "BUY") > 0
  /\ portfolio.assets = <<>>

(***************************************************************************)
(* C26: when the run ends, totalValue of the returned portfolio is the     *)
(* last entry of its values, and metrics.totalReturn is the return of that *)
(* last valuation over initialCapital.                                     *)
(***************************************************************************)
C26_FinalValueIsLastValuation ==
  pc = "done" =>
    /\ result[1].portfolio.totalValue = Last(result[1].portfolio.values)
    /\ result[1].metrics.totalReturn.num * config.initialCapital
         = (Last(result[1].portfolio.values) - config.initialCapital)
             * result[1].metrics.totalReturn.den

(***************************************************************************)
(* C27: the previous total value that divides a daily return is strictly   *)
(* positive, runs with a forced liquidation included.                      *)
(***************************************************************************)
C27_ReturnDivisorPositive ==
  \A i \in 1..Len(portfolio.dailyReturns) : portfolio.dailyReturns[i].den > 0

\* the dates, sorted, of the bars the provider holds for the configured
\* tickers between startDate and endDate
ProviderCalendar ==
  SortSet(UNION {{provider[t][i].date : i \in 1..Len(provider[t])}
                   : t \in DOMAIN provider}
          \cap config.startDate..config.endDate)

(***************************************************************************)
(* C23: the fetches of the tickers complete in any order and are joined    *)
(* before the calendar is built: no trading day is simulated before every  *)
(* fetch has completed, the calendar is the one of the data of all the     *)
(* tickers, and two runs of one configuration on the same data return the  *)
(* same portfolio, trades and metrics whatever the orders in which their   *)
(* fetches completed.                                                      *)
(***************************************************************************)
C23_FetchOrderIrrelevant ==
  /\ pc \in {"day", "trade", "risk", "metrics", "done"} =>
       /\ pending = {}
       /\ \A k \in 1..Len(config.tickers) :
             config.tickers[k] \in DOMAIN historicalData
       /\ tradingDates = ProviderCalendar
  /\ (SecondRunReturned /\ config = rerun[1]) =>
       LET first == hook.result[1]
           second == result[1]
       IN /\ second.portfolio = first.portfolio
          /\ second.portfolio.dates = tradingDates
          /\ Len(second.trades) = Len(first.trades)
          /\ \A i \in 1..Len(first.trades) :
                TradeFields(second.trades[i]) = TradeFields(first.trades[i])
          /\ second.metrics = first.metrics

\* a second run on two known tickers has returned, one ticker lacking bars
\* the other has, after trades in both tickers
C23_Witness ==
  /\ SecondRunReturned
  /\ config = rerun[1]
  /\ DOMAIN historicalData = {"AAPL", "MSFT"}
  /\ Len(historicalData["MSFT"]) < Len(historicalData["AAPL"])
  /\ \E i, j \in 1..Len(trades) : trades[i].ticker # trades[j].ticker

(***************************************************************************)
(* C24: displaying the trade log leaves the result as it was returned: for *)
(* every filter, sort field, sort direction and ticker search the trades   *)
(* of the result the hook holds are the trades the run returned, in the    *)
(* same order.                                                             *)
(***************************************************************************)
C24_TradeLogReadOnly ==
  (hook.result # <<>> /\ result # <<>>)
    => hook.result[1].trades = result[1].trades

(***************************************************************************)
(* C28: for one invocation of the hook's runSimulation, isRunning is true  *)
(* and error is cleared before the simulation starts and while it runs;    *)
(* when it settles isRunning becomes false and exactly one of two things   *)
(* happens: result is replaced by the new SimulationResult, error staying  *)
(* cleared, or error is set to the message of the failure, result staying  *)
(* as it was; and every invocation settles in the end, leaving isRunning   *)
(* false.                                                                  *)
(***************************************************************************)
C28_InvocationSettles ==
  /\ [](inflight => (hook.isRunning /\ hook.error = <<>>))
  /\ [][(inflight /\ ~inflight') =>
          /\ ~hook'.isRunning
          /\ \/ /\ pc = "done"
                /\ hook'.result = result
                /\ result # <<>>
                /\ hook'.error = <<>>
             \/ /\ pc = "failed"
                /\ hook'.error = error
                /\ error # <<>>
                /\ hook'.result = hook.result]_vars
  /\ [](inflight => <>(~inflight /\ ~hook.isRunning))

\* the second invocation has settled and replaced the result of the first
C28_Witness ==
  /\ rerun # <<>>
  /\ ~inflight
  /\ ~hook.isRunning
  /\ hook.error = <<>>
  /\ hook.result = result
  /\ trades # <<>>
  /\ now > 1

\* the invocations of handleRunSimulation that have not reached their
\* finally block
Unsettled == (IF inflight THEN 1 ELSE 0) + Len(stale)

(***************************************************************************)
(* C29: through the App's Run Backtest and Reset buttons at most one       *)
(* simulation is in flight at any time: no run is started while an         *)
(* earlier one has not settled.                                            *)
(***************************************************************************)
C29_OneRunInFlight == Unsettled <= 1

(***************************************************************************)
(* C30: with overlapping invocations of the hook's runSimulation, or a     *)
(* reset while a run is in flight, isRunning is true whenever at least one *)
(* invocation has not settled.                                             *)
(***************************************************************************)
C30_RunningWhileUnsettled == Unsettled > 0 => hook.isRunning

====
